---------------------------- MODULE Spec2Model ----------------------------
(***************************************************************************)
(* A model of src/jigsaws_data_visualisation.py: the class                 *)
(* JIGSAWS3DVideoGeneratorEnhanced (load_data, extract_manipulator_data,   *)
(* get_best_video_writer, create_combined_trajectory_video with its inner  *)
(* get_current_gesture and animate, create_all_videos).                    *)
(*                                                                         *)
(* Text is modelled as a sequence of atoms.  An atom is a one-character    *)
(* string, or an opaque chunk of characters none of which is '.', '/' or   *)
(* whitespace (a chunk can therefore never take part in a match of '.mp4', *)
(* nor in a split).  Python's None is a record with isNone = TRUE.         *)
(***************************************************************************)
EXTENDS Integers, Naturals, Sequences, FiniteSets, TLC

VARIABLES
    kinematics_file,      \* the kinematics file on disk (input)
    transcriptions_file,  \* the transcriptions file on disk (input)
    available_writers,    \* matplotlib's writer registry (input)
    output_dir,           \* argument of create_all_videos (input)
    files,                \* files present under the output directories
    dirs,                 \* directories that exist
    pc,                   \* position in create_all_videos and its callees
    kinematics_data,      \* self.kinematics_data
    frame_count,          \* self.frame_count
    transcriptions_data,  \* self.transcriptions_data
    line_num,             \* load_data: index of the next line of the file
    transcriptions,       \* load_data: the local list of parsed intervals
    group,                \* manipulator_group of the render in progress
    left_data,            \* create_combined_trajectory_video: left bundle
    right_data,           \* create_combined_trajectory_video: right bundle
    figures,              \* matplotlib figures currently open
    writer,               \* writer, corrected_filename of the render
    frame,                \* next frame index anim.save hands to animate
    overlay,              \* artists animate updated on its last call
    frames_out,           \* frame indices grabbed by the writer, in order
    render_result,        \* what each group's render gave its caller
    success_count,        \* create_all_videos: success_count
    created_files,        \* create_all_videos: created_files
    summary,              \* artifact list handed to create_video_summary
    result                \* what create_all_videos gave its caller

vars == <<kinematics_file, transcriptions_file, available_writers, output_dir,
          files, dirs, pc, kinematics_data, frame_count, transcriptions_data,
          line_num, transcriptions, group, left_data, right_data, figures,
          writer, frame, overlay, frames_out, render_result, success_count,
          created_files, summary, result>>

inputs == <<kinematics_file, transcriptions_file, available_writers, output_dir>>

-----------------------------------------------------------------------------
(* Bounds of the model.                                                    *)

MaxLines == 3        \* lines of an enumerated transcriptions file
MaxRows == 3         \* rows of an enumerated (short) kinematics table
MaxLookupFrame == 5  \* frame indices 0..MaxLookupFrame are looked up
LongExtra == 2       \* the long table has trail_length + LongExtra rows

(* Program constants.                                                      *)

fps == 30
trail_length == 150

-----------------------------------------------------------------------------
(* Text helpers: Python's str and int operations as the code uses them.    *)

Digits == {"0", "1", "2", "3", "4", "5", "6", "7", "8", "9"}

DigitVal(c) ==
    CASE c = "0" -> 0 [] c = "1" -> 1 [] c = "2" -> 2 [] c = "3" -> 3
      [] c = "4" -> 4 [] c = "5" -> 5 [] c = "6" -> 6 [] c = "7" -> 7
      [] c = "8" -> 8 [] c = "9" -> 9

DigitChar(d) ==
    CASE d = 0 -> "0" [] d = 1 -> "1" [] d = 2 -> "2" [] d = 3 -> "3"
      [] d = 4 -> "4" [] d = 5 -> "5" [] d = 6 -> "6" [] d = 7 -> "7"
      [] d = 8 -> "8" [] d = 9 -> "9"

Whitespace == {" ", "\t"}

Tail2(s, n) == SubSeq(s, n, Len(s))  \* s[n-1:] in Python's indexing

RECURSIVE DigitsValue(_, _)
DigitsValue(s, acc) ==
    IF s = <<>> THEN acc ELSE DigitsValue(Tail(s), acc * 10 + DigitVal(Head(s)))

\* int(text): an optional sign and one or more decimal digits; anything
\* else raises ValueError (ok = FALSE).
ParseInt(s) ==
    LET body == IF s # <<>> /\ Head(s) \in {"+", "-"} THEN Tail(s) ELSE s
        neg == s # <<>> /\ Head(s) = "-"
    IN IF body # <<>> /\ \A i \in 1..Len(body) : body[i] \in Digits
       THEN [ok |-> TRUE,
             val |-> IF neg THEN 0 - DigitsValue(body, 0) ELSE DigitsValue(body, 0)]
       ELSE [ok |-> FALSE, val |-> 0]

RECURSIVE NatToStr(_)
NatToStr(n) ==
    IF n < 10 THEN <<DigitChar(n)>> ELSE Append(NatToStr(n \div 10), DigitChar(n % 10))

\* str(n) as an f-string renders an integer
IntToStr(n) == IF n < 0 THEN <<"-">> \o NatToStr(0 - n) ELSE NatToStr(n)

RECURSIVE LStrip(_)
LStrip(s) == IF s # <<>> /\ Head(s) \in Whitespace THEN LStrip(Tail(s)) ELSE s

RECURSIVE RStrip(_)
RStrip(s) ==
    IF s # <<>> /\ s[Len(s)] \in Whitespace THEN RStrip(SubSeq(s, 1, Len(s) - 1)) ELSE s

\* line.strip()
Strip(s) == RStrip(LStrip(s))

RECURSIVE SplitFrom(_, _, _)
SplitFrom(s, cur, acc) ==
    IF s = <<>> THEN (IF cur = <<>> THEN acc ELSE Append(acc, cur))
    ELSE IF Head(s) \in Whitespace
         THEN SplitFrom(Tail(s), <<>>, IF cur = <<>> THEN acc ELSE Append(acc, cur))
         ELSE SplitFrom(Tail(s), Append(cur, Head(s)), acc)

\* line.split(): the maximal runs of non-whitespace, in order
Split(s) == SplitFrom(s, <<>>, <<>>)

StartsWith(s, p) == Len(s) >= Len(p) /\ SubSeq(s, 1, Len(p)) = p

RECURSIVE Replace(_, _, _)
\* s.replace(old, new): every non-overlapping occurrence, left to right
Replace(s, old, new) ==
    IF s = <<>> THEN <<>>
    ELSE IF StartsWith(s, old)
         THEN new \o Replace(Tail2(s, Len(old) + 1), old, new)
         ELSE <<Head(s)>> \o Replace(Tail(s), old, new)


-----------------------------------------------------------------------------
(* load_data, transcriptions: lines 76-116.                                *)

None == [isNone |-> TRUE]

Skipped == [ok |-> FALSE, interval |-> <<>>]

\* A variant of ParseGestureId that drops the first character of every token.
ParseGestureIdStripAlways(gesture_str) == ParseInt(Tail(gesture_str))

\* The gesture-id token of a line (lines 94-98): 'G<int>' or a bare integer.
ParseGestureId(gesture_str) ==
    IF StartsWith(gesture_str, <<"G">>)
    THEN ParseInt(Tail(gesture_str))
    ELSE ParseInt(gesture_str)

\* One iteration of the loop over the file's lines (lines 82-103): the
\* interval the line appends, or Skipped when the line is blank, has fewer
\* than 3 parts, or int() raises ValueError.
ParseLine(line) ==
    LET stripped == Strip(line)
        parts == Split(stripped)
    IN IF stripped = <<>> THEN Skipped
       ELSE IF Len(parts) >= 3
            THEN LET start_frame == ParseInt(parts[1])
                     end_frame == ParseInt(parts[2])
                     gesture_id == ParseGestureId(parts[3])
                 IN IF start_frame.ok /\ end_frame.ok /\ gesture_id.ok
                    THEN [ok |-> TRUE,
                          interval |-> <<start_frame.val, end_frame.val, gesture_id.val>>]
                    ELSE Skipped
            ELSE Skipped

\* A variant of ToTranscriptionsData that builds the array of an empty list too.
ToTranscriptionsDataAlways(list) == [isNone |-> FALSE, arr |-> list]

\* Lines 105-109: the array of the parsed intervals, or None when there are none.
ToTranscriptionsData(list) ==
    IF list # <<>> THEN [isNone |-> FALSE, arr |-> list] ELSE None

-----------------------------------------------------------------------------
(* get_current_gesture: lines 285-309.                                     *)

GestureIds == (1..6) \cup (8..15)

gestures == [id \in GestureIds |->
    CASE id = 1 -> <<"Reaching for needle">>
      [] id = 2 -> <<"Positioning needle/tool">>
      [] id = 3 -> <<"Pushing needle through tissue">>
      [] id = 4 -> <<"Transferring needle L<->R">>
      [] id = 5 -> <<"Moving to center">>
      [] id = 6 -> <<"Pulling suture">>
      [] id = 8 -> <<"Orienting needle">>
      [] id = 9 -> <<"Tightening suture">>
      [] id = 10 -> <<"Loosening suture">>
      [] id = 11 -> <<"Dropping/completing">>
      [] id = 12 -> <<"Knot tying motion">>
      [] id = 13 -> <<"Knot securing">>
      [] id = 14 -> <<"Knot tightening">>
      [] id = 15 -> <<"Final knot adjustment">>]

NoGestureData == <<"No gesture data">>
Transition == <<"Transition">>

\* gestures.get(gesture_id, f"Gesture {gesture_id}")
GestureLabel(gesture_id) ==
    IF gesture_id \in DOMAIN gestures
    THEN gestures[gesture_id]
    ELSE <<"Gesture ">> \o IntToStr(gesture_id)

\* A variant of Contains whose lower bound is exclusive.
ContainsExclusiveStart(interval, frame_idx) ==
    interval[1] < frame_idx /\ frame_idx <= interval[2]

\* The test of line 307.
Contains(interval, frame_idx) ==
    interval[1] <= frame_idx /\ frame_idx <= interval[2]

RECURSIVE ScanIntervals(_, _)
\* The for loop of lines 306-309 over the rows of the array.
ScanIntervals(arr, frame_idx) ==
    IF arr = <<>> THEN Transition
    ELSE IF Contains(Head(arr), frame_idx)
         THEN GestureLabel(Head(arr)[3])
         ELSE ScanIntervals(Tail(arr), frame_idx)

get_current_gesture(data, frame_idx) ==
    IF data.isNone THEN NoGestureData ELSE ScanIntervals(data.arr, frame_idx)

-----------------------------------------------------------------------------
(* load_data, kinematics: lines 63-74, and extract_manipulator_data.       *)

NaN == 0 - 1

\* The number a kinematics file holds at row i, column j (0-based): every
\* cell of a file differs from every other, except the columns the file
\* holds 'nan' in.
Cell(file, i, j) == IF j \in file.nan THEN NaN ELSE i * 100 + j

\* np.loadtxt(file): the array's shape.  A file of one row (or one column)
\* loads as a 1-D array, an empty file as an empty 1-D array, a single
\* number as a 0-d array.
LoadTxt(file) ==
    LET shape == IF file.rows = 0 THEN <<0>>
                 ELSE IF file.rows = 1 /\ file.cols = 1 THEN <<>>
                 ELSE IF file.rows = 1 THEN <<file.cols>>
                 ELSE IF file.cols = 1 THEN <<file.rows>>
                 ELSE <<file.rows, file.cols>>
    IN [isNone |-> FALSE, shape |-> shape, file |-> file]

\* Lines 64-74: [ok, data, frame_count].  A missing file, a file loadtxt
\* cannot parse, and a 0-d array (len() raises TypeError) all return False.
LoadKinematicsResult(file) ==
    IF ~file.exists \/ ~file.parses \/ LoadTxt(file).shape = <<>>
    THEN [ok |-> FALSE, data |-> None, frame_count |-> 0]
    ELSE [ok |-> TRUE, data |-> LoadTxt(file), frame_count |-> LoadTxt(file).shape[1]]

\* Lines 126-143: the columns of a manipulator, None for any other name.
ColumnMap(manipulator_type) ==
    CASE manipulator_type = "master_left" ->
           [isNone |-> FALSE, pos_cols |-> <<0, 1, 2>>, vel_cols |-> <<12, 13, 14>>,
            gripper_col |-> 18]
      [] manipulator_type = "master_right" ->
           [isNone |-> FALSE, pos_cols |-> <<19, 20, 21>>, vel_cols |-> <<31, 32, 33>>,
            gripper_col |-> 37]
      [] manipulator_type = "slave_right" ->
           [isNone |-> FALSE, pos_cols |-> <<38, 39, 40>>, vel_cols |-> <<50, 51, 52>>,
            gripper_col |-> 56]
      [] manipulator_type = "slave_left" ->
           [isNone |-> FALSE, pos_cols |-> <<57, 58, 59>>, vel_cols |-> <<69, 70, 71>>,
            gripper_col |-> 75]
      [] OTHER -> None

\* data[:, cols] of a 2-D array: one tuple per row
Columns(data, cols) ==
    [i \in 1..data.shape[1] |->
        [k \in 1..Len(cols) |-> Cell(data.file, i - 1, cols[k])]]

\* data[:, col] of a 2-D array: one number per row
Column(data, col) == [i \in 1..data.shape[1] |-> Cell(data.file, i - 1, col)]

\* np.arange(len(data)) / fps: the fraction i / fps kept as <<i, fps>>
TimeAxis(data) == [i \in 1..data.shape[1] |-> <<i - 1, fps>>]

Raised == [isNone |-> FALSE, raised |-> TRUE]

\* extract_manipulator_data, lines 120-150.  Indexing [:, cols] raises
\* IndexError on an array that is not 2-D or has too few columns.
extract_manipulator_data(data, manipulator_type) ==
    LET m == ColumnMap(manipulator_type)
    IN IF data.isNone THEN None
       ELSE IF m.isNone THEN None
       ELSE IF Len(data.shape) # 2 \/ data.shape[2] <= m.gripper_col THEN Raised
       ELSE [isNone |-> FALSE, raised |-> FALSE,
             positions |-> Columns(data, m.pos_cols),
             velocities |-> Columns(data, m.vel_cols),
             gripper |-> Column(data, m.gripper_col),
             time |-> TimeAxis(data)]

-----------------------------------------------------------------------------
(* get_best_video_writer: lines 152-178.                                   *)

Mp4 == <<".", "m", "p", "4">>
Gif == <<".", "g", "i", "f">>

\* The registry lists a writer ("unlisted" when not); constructing a listed
\* writer succeeds ("ok") or raises ("broken").
WriterStates == {"unlisted", "broken", "ok"}

\* Line 171.
GifFilename(output_filename) == Replace(output_filename, Mp4, Gif)

get_best_video_writer(registry, output_filename) ==
    IF registry.ffmpeg = "ok"
    THEN [writer |-> "ffmpeg", filename |-> output_filename]
    ELSE IF registry.pillow = "ok"
         THEN [writer |-> "pillow", filename |-> GifFilename(output_filename)]
         ELSE [writer |-> "None", filename |-> output_filename]

-----------------------------------------------------------------------------
(* Paths of create_all_videos: lines 397-425.                              *)

task == "Suturing"
subject_id == "B001"

\* f"{task}_{subject_id}_{group}_combined.mp4", line 406 and line 417
OutputName(g) == <<task, "_", subject_id, "_", g, "_combined">> \o Mp4

\* output_path / name
Join(dir, name) == dir \o <<"/">> \o name

GroupOutput(dir, g) == Join(dir, OutputName(g))

RECURSIVE LastIndexOf(_, _)
LastIndexOf(s, c) ==
    IF s = <<>> THEN 0
    ELSE IF s[Len(s)] = c THEN Len(s)
         ELSE LastIndexOf(SubSeq(s, 1, Len(s) - 1), c)

\* os.path.dirname of a path
DirName(path) ==
    IF LastIndexOf(path, "/") = 0 THEN <<>>
    ELSE SubSeq(path, 1, LastIndexOf(path, "/") - 1)

\* Path.with_suffix(suffix): the last component's suffix (from its last
\* dot, when that dot is neither its first nor its last character) replaced
WithSuffix(path, suffix) ==
    LET slash == LastIndexOf(path, "/")
        name == Tail2(path, slash + 1)
        dot == LastIndexOf(name, ".")
    IN IF dot > 1 /\ dot < Len(name)
       THEN SubSeq(path, 1, slash + dot - 1) \o suffix
       ELSE path \o suffix

-----------------------------------------------------------------------------
(* animate: lines 311-363.                                                 *)

Max(a, b) == IF a >= b THEN a ELSE b
Min(a, b) == IF a <= b THEN a ELSE b

\* seq[a:b] of Python, 0 <= a
Slice(seq, a, b) == SubSeq(seq, a + 1, Min(b, Len(seq)))

\* Line 314.
TrailStart(f) == Max(0, f - trail_length)

\* A variant of TrailEnd that leaves the current row out of the slice.
TrailEndExclusive(f) == f

\* Line 315.
TrailEnd(f) == f + 1

\* Line 351: frame / len(positions) * 100, kept as the fraction <<num, den>>
Progress(f, n) == <<f * 100, n>>

NoOverlay == [drawn |-> FALSE]

\* One call of animate(frame) on the artists `prev`: the artists afterwards.
\* Indexing a row past the end raises IndexError (raised = TRUE).
animate(prev, left, right, data, f) ==
    LET trail_start == TrailStart(f)
        trail_end == TrailEnd(f)
        n == Len(left.positions)
        keep(name) == IF prev.drawn THEN prev[name] ELSE <<>>
    IN IF f >= n
       THEN [drawn |-> TRUE, raised |-> TRUE, frame |-> f,
             left_trail |-> keep("left_trail"), right_trail |-> keep("right_trail"),
             left_current |-> <<>>, right_current |-> <<>>, current_time |-> <<>>,
             frame_total |-> 0, progress |-> <<>>, gesture_text |-> <<>>]
       ELSE [drawn |-> TRUE, raised |-> FALSE, frame |-> f,
             left_trail |-> IF trail_end > trail_start
                            THEN Slice(left.positions, trail_start, trail_end)
                            ELSE keep("left_trail"),
             right_trail |-> IF trail_end > trail_start
                             THEN Slice(right.positions, trail_start, trail_end)
                             ELSE keep("right_trail"),
             left_current |-> left.positions[f + 1],
             right_current |-> right.positions[f + 1],
             current_time |-> left.time[f + 1],
             frame_total |-> n - 1,
             progress |-> Progress(f, n),
             gesture_text |-> get_current_gesture(data, f)]

-----------------------------------------------------------------------------
(* The state after construction (__init__, lines 16-57) on given inputs.   *)

NoResults == [master |-> "none", slave |-> "none"]
NoWriter == [writer |-> "None", filename |-> <<>>]
NoSummary == [called |-> FALSE, created_files |-> <<>>]

InitProgram ==
    /\ dirs = {}
    /\ pc = "start"
    /\ kinematics_data = None
    /\ frame_count = 0
    /\ transcriptions_data = None
    /\ line_num = 0
    /\ transcriptions = <<>>
    /\ group = "none"
    /\ left_data = None
    /\ right_data = None
    /\ figures = {}
    /\ writer = NoWriter
    /\ frame = 0
    /\ overlay = NoOverlay
    /\ frames_out = <<>>
    /\ render_result = NoResults
    /\ success_count = 0
    /\ created_files = <<>>
    /\ summary = NoSummary
    /\ result = "none"

-----------------------------------------------------------------------------
(* load_data: lines 59-118.                                                *)

\* Lines 63-74.
LoadKinematics ==
    /\ pc = "start"
    /\ LET r == LoadKinematicsResult(kinematics_file)
       IN /\ kinematics_data' = IF kinematics_file.exists /\ kinematics_file.parses
                                THEN LoadTxt(kinematics_file) ELSE None
          /\ frame_count' = r.frame_count
          /\ pc' = IF r.ok THEN "open_transcriptions" ELSE "done"
          /\ result' = IF r.ok THEN result ELSE "False"
    /\ UNCHANGED <<inputs, files, dirs, transcriptions_data, line_num, transcriptions,
                   group, left_data, right_data, figures, writer, frame, overlay,
                   frames_out, render_result, success_count, created_files, summary>>

\* Lines 77-80 and 111-116: a missing file, or one open() or the read
\* raises on, leaves transcriptions_data None.
OpenTranscriptions ==
    /\ pc = "open_transcriptions"
    /\ IF transcriptions_file.exists /\ transcriptions_file.readable
       THEN /\ transcriptions' = <<>>
            /\ line_num' = 1
            /\ pc' = "read_lines"
            /\ UNCHANGED transcriptions_data
       ELSE /\ transcriptions_data' = None
            /\ pc' = "loaded"
            /\ UNCHANGED <<transcriptions, line_num>>
    /\ UNCHANGED <<inputs, files, dirs, kinematics_data, frame_count,
                   group, left_data, right_data, figures, writer, frame, overlay,
                   frames_out, render_result, success_count, created_files, summary,
                   result>>

\* Lines 81-103: one iteration of the loop.
ReadLine ==
    /\ pc = "read_lines"
    /\ line_num <= Len(transcriptions_file.lines)
    /\ LET parsed == ParseLine(transcriptions_file.lines[line_num])
       IN transcriptions' = IF parsed.ok
                            THEN Append(transcriptions, parsed.interval)
                            ELSE transcriptions
    /\ line_num' = line_num + 1
    /\ UNCHANGED <<inputs, files, dirs, pc, kinematics_data, frame_count,
                   transcriptions_data,
                   group, left_data, right_data, figures, writer, frame, overlay,
                   frames_out, render_result, success_count, created_files, summary,
                   result>>

\* Lines 105-110, and the return of line 118.
FinishTranscriptions ==
    /\ pc = "read_lines"
    /\ line_num > Len(transcriptions_file.lines)
    /\ transcriptions_data' = ToTranscriptionsData(transcriptions)
    /\ pc' = "loaded"
    /\ UNCHANGED <<inputs, files, dirs, kinematics_data, frame_count,
                   line_num, transcriptions,
                   group, left_data, right_data, figures, writer, frame, overlay,
                   frames_out, render_result, success_count, created_files, summary,
                   result>>

load_data == LoadKinematics \/ OpenTranscriptions \/ ReadLine \/ FinishTranscriptions

-----------------------------------------------------------------------------
(* create_combined_trajectory_video: lines 180-389.                        *)

\* What leaves the scope when the render hands control back to its caller.
DropLocals ==
    /\ left_data' = None
    /\ right_data' = None
    /\ writer' = NoWriter
    /\ frame' = 0
    /\ overlay' = NoOverlay
    /\ frames_out' = <<>>

\* Lines 212-224: min()/max() of no rows, or limits that are NaN, raise
\* ValueError.
LimitsRaise(left, right) ==
    \/ Len(left.positions) + Len(right.positions) = 0
    \/ \E i \in 1..Len(left.positions) : \E k \in 1..3 : left.positions[i][k] = NaN
    \/ \E i \in 1..Len(right.positions) : \E k \in 1..3 : right.positions[i][k] = NaN

\* Lines 185-201.  An IndexError of the extraction is not caught here.
Extract ==
    /\ pc = "render"
    /\ LET l == extract_manipulator_data(kinematics_data, group \o "_left")
           r == extract_manipulator_data(kinematics_data, group \o "_right")
       IN IF (~l.isNone /\ l.raised) \/ (~l.isNone /\ ~r.isNone /\ r.raised)
          THEN /\ pc' = "raised"
               /\ render_result' = [render_result EXCEPT ![group] = "raised"]
               /\ result' = "raised"
               /\ UNCHANGED <<left_data, right_data>>
          ELSE IF l.isNone \/ r.isNone
               THEN /\ pc' = "returned"
                    /\ render_result' = [render_result EXCEPT ![group] = "False"]
                    /\ UNCHANGED <<left_data, right_data, result>>
               ELSE /\ pc' = "setup"
                    /\ left_data' = l
                    /\ right_data' = r
                    /\ UNCHANGED <<render_result, result>>
    /\ UNCHANGED <<inputs, files, dirs, kinematics_data, frame_count,
                   transcriptions_data, line_num, transcriptions, group, figures,
                   writer, frame, overlay, frames_out, success_count, created_files,
                   summary>>

\* Lines 203-368: the figure is created, then the axes are set up.  An
\* exception raised here is caught neither by this method nor by its caller.
SetupFigure ==
    /\ pc = "setup"
    /\ figures' = figures \cup {group}
    /\ IF LimitsRaise(left_data, right_data)
       THEN /\ pc' = "raised"
            /\ render_result' = [render_result EXCEPT ![group] = "raised"]
            /\ result' = "raised"
       ELSE /\ pc' = "select_writer"
            /\ UNCHANGED <<render_result, result>>
    /\ UNCHANGED <<inputs, files, dirs, kinematics_data, frame_count,
                   transcriptions_data, line_num, transcriptions, group, left_data,
                   right_data, writer, frame, overlay, frames_out, success_count,
                   created_files, summary>>

\* Lines 370-375.
SelectWriter ==
    /\ pc = "select_writer"
    /\ LET w == get_best_video_writer(available_writers, GroupOutput(output_dir, group))
       IN IF w.writer = "None"
          THEN /\ figures' = figures \ {group}
               /\ render_result' = [render_result EXCEPT ![group] = "False"]
               /\ pc' = "returned"
               /\ DropLocals
          ELSE /\ writer' = w
               /\ frame' = 0
               /\ frames_out' = <<>>
               /\ pc' = "saving"
               /\ UNCHANGED <<figures, render_result, left_data, right_data, overlay>>
    /\ UNCHANGED <<inputs, files, dirs, kinematics_data, frame_count,
                   transcriptions_data, line_num, transcriptions, group,
                   success_count, created_files, summary, result>>

\* anim.save, line 381: the writer can open its output
CanWrite == DirName(writer.filename) \in dirs

\* A variant of FrameTotal that stops one frame early.
FrameTotalShort(left) == Len(left.positions) - 1

\* Line 367: frames=len(left_data['positions']), the number of frames
\* anim.save draws, 0 .. frames - 1 in order.
FrameTotal(left) == Len(left.positions)

\* anim.save, line 381: the next frame is drawn by animate and grabbed.
Animate ==
    /\ pc = "saving"
    /\ CanWrite
    /\ frame < FrameTotal(left_data)
    /\ overlay' = animate(overlay, left_data, right_data, transcriptions_data, frame)
    /\ frames_out' = Append(frames_out, frame)
    /\ frame' = frame + 1
    /\ UNCHANGED <<inputs, files, dirs, pc, kinematics_data, frame_count,
                   transcriptions_data, line_num, transcriptions, group, left_data,
                   right_data, figures, writer, render_result, success_count,
                   created_files, summary, result>>

\* Lines 385-389: anim.save raised (the output cannot be opened, or the
\* encoder failed at some frame); a part of the file may be left behind.
SaveFails ==
    /\ pc = "saving"
    /\ \E partial \in BOOLEAN :
          files' = IF partial /\ CanWrite THEN files \cup {writer.filename} ELSE files
    /\ figures' = figures \ {group}
    /\ render_result' = [render_result EXCEPT ![group] = "False"]
    /\ pc' = "returned"
    /\ DropLocals
    /\ UNCHANGED <<inputs, dirs, kinematics_data, frame_count,
                   transcriptions_data, line_num, transcriptions, group,
                   success_count, created_files, summary, result>>

\* Lines 381-383 and 388-389: every frame was written.
SaveDone ==
    /\ pc = "saving"
    /\ CanWrite
    /\ frame = FrameTotal(left_data)
    /\ files' = files \cup {writer.filename}
    /\ figures' = figures \ {group}
    /\ render_result' = [render_result EXCEPT ![group] = "True"]
    /\ pc' = "returned"
    /\ DropLocals
    /\ UNCHANGED <<inputs, dirs, kinematics_data, frame_count,
                   transcriptions_data, line_num, transcriptions, group,
                   success_count, created_files, summary, result>>

create_combined_trajectory_video ==
    Extract \/ SetupFigure \/ SelectWriter \/ Animate \/ SaveFails \/ SaveDone

-----------------------------------------------------------------------------
(* create_all_videos: lines 391-438.                                       *)

\* Lines 396-406: load_data returned True.
BeginVideos ==
    /\ pc = "loaded"
    /\ dirs' = dirs \cup {output_dir}
    /\ success_count' = 0
    /\ created_files' = <<>>
    /\ group' = "master"
    /\ pc' = "render"
    /\ UNCHANGED <<inputs, files, kinematics_data, frame_count,
                   transcriptions_data, line_num, transcriptions, left_data,
                   right_data, figures, writer, frame, overlay, frames_out,
                   render_result, summary, result>>

\* Lines 410-414 and 421-425: the file the caller lists for a group.
CreatedFile(listed, g) ==
    LET mp4 == GroupOutput(output_dir, g)
        gif_file == WithSuffix(mp4, Gif)
    IN IF gif_file \in files THEN Append(listed, gif_file)
       ELSE IF mp4 \in files THEN Append(listed, mp4)
       ELSE listed

\* Lines 407-418: the render of `group` returned.
AfterRender ==
    /\ pc = "returned"
    /\ IF render_result[group] = "True"
       THEN /\ success_count' = success_count + 1
            /\ created_files' = CreatedFile(created_files, group)
       ELSE UNCHANGED <<success_count, created_files>>
    /\ IF group = "master"
       THEN group' = "slave" /\ pc' = "render"
       ELSE group' = "none" /\ pc' = "summary"
    /\ UNCHANGED <<inputs, files, dirs, kinematics_data, frame_count,
                   transcriptions_data, line_num, transcriptions, left_data,
                   right_data, figures, writer, frame, overlay, frames_out,
                   render_result, summary, result>>

\* Lines 427-438.
Summarize ==
    /\ pc = "summary"
    /\ summary' = [called |-> TRUE, created_files |-> created_files]
    /\ result' = IF success_count > 0 THEN "True" ELSE "False"
    /\ pc' = "done"
    /\ UNCHANGED <<inputs, files, dirs, kinematics_data, frame_count,
                   transcriptions_data, line_num, transcriptions, group, left_data,
                   right_data, figures, writer, frame, overlay, frames_out,
                   render_result, success_count, created_files>>

create_all_videos ==
    load_data \/ BeginVideos \/ create_combined_trajectory_video \/ AfterRender
      \/ Summarize

-----------------------------------------------------------------------------
(* Inputs.  Lines of a transcriptions file, as the text between two line   *)
(* breaks.                                                                 *)

Line_10_20_G3 == <<"1", "0", " ", "2", "0", " ", "G", "3">>  \* "10 20 G3"
Line_2_15_G1 == <<"2", " ", "1", "5", " ", "G", "1">>  \* "2 15 G1"
Line_0_3_7 == <<"0", " ", "3", " ", "7">>  \* "0 3 7"
Line_20_10_G1 == <<"2", "0", " ", "1", "0", " ", "G", "1">>  \* "20 10 G1"
Line_5_9_G0 == <<"5", " ", "9", " ", "G", "0">>  \* "5 9 G0"
Line_5_9_neg3 == <<"5", " ", "9", " ", "-", "3">>  \* "5 9 -3"
Line_abc_def_G1 == <<"a", "b", "c", " ", "d", "e", "f", " ", "G", "1">>  \* "abc def G1"
Line_blank == <<" ", " ">>  \* "  "
Line_5_9 == <<"5", " ", "9">>  \* "5 9"
Line_padded == <<" ", "3", " ", "4", " ", "G", "2", " ", "x", " ">>  \* " 3 4 G2 x "
Line_1_2_GG1 == <<"1", " ", "2", " ", "G", "G", "1">>  \* "1 2 GG1"

Lines == {Line_10_20_G3,
          Line_2_15_G1,
          Line_0_3_7,
          Line_20_10_G1,
          Line_5_9_G0,
          Line_5_9_neg3,
          Line_abc_def_G1,
          Line_blank,
          Line_5_9,
          Line_padded,
          Line_1_2_GG1}

SeqsUpTo(S, n) == UNION {[1..k -> S] : k \in 0..n}

Readable(ls) == [exists |-> TRUE, readable |-> TRUE, lines |-> ls]
AbsentTranscriptions == [exists |-> FALSE, readable |-> FALSE, lines |-> <<>>]
UnreadableTranscriptions == [exists |-> TRUE, readable |-> FALSE, lines |-> <<>>]

\* Every file of at most MaxLines of the lines above, and no file at all.
AllTranscriptionFiles ==
    {AbsentTranscriptions, UnreadableTranscriptions}
      \cup {Readable(ls) : ls \in SeqsUpTo(Lines, MaxLines)}

SomeTranscriptionFiles ==
    {AbsentTranscriptions, UnreadableTranscriptions, Readable(<<>>),
     Readable(<<Line_abc_def_G1, Line_blank>>),
     Readable(<<Line_0_3_7, Line_abc_def_G1, Line_2_15_G1>>)}

Table(rows, cols, nan) ==
    [exists |-> TRUE, parses |-> TRUE, rows |-> rows, cols |-> cols, nan |-> nan]
AbsentKinematics ==
    [exists |-> FALSE, parses |-> FALSE, rows |-> 0, cols |-> 0, nan |-> {}]
CorruptKinematics ==
    [exists |-> TRUE, parses |-> FALSE, rows |-> 0, cols |-> 0, nan |-> {}]

\* Column counts: a single number, a table that ends before the slave
\* columns, the JIGSAWS table.  Columns holding 'nan': none, master-left x,
\* slave-left x.
ShortKinematicsFiles ==
    {AbsentKinematics, CorruptKinematics, Table(1, 1, {})}
      \cup {Table(rows, cols, nan) :
              rows \in 0..MaxRows, cols \in {40, 76}, nan \in {{}, {0}, {57}}}

LongRows == trail_length + LongExtra
LongKinematics == Table(LongRows, 76, {})

DefaultOutputDir == <<"jigsaws_3d_videos_enhanced">>
Mp4OutputDir == <<"clips">> \o Mp4 \o <<"_out">>

Registries == [ffmpeg : WriterStates, pillow : WriterStates]

\* Files left in the output directory by an earlier run.
StaleFiles(dir) == {{}, {WithSuffix(GroupOutput(dir, "master"), Gif)}}

-----------------------------------------------------------------------------
(* Spec: create_all_videos on every combination of the short inputs, and   *)
(* on the long table.                                                      *)

Init ==
    /\ \/ /\ kinematics_file \in ShortKinematicsFiles
          /\ transcriptions_file \in SomeTranscriptionFiles
          /\ available_writers \in Registries
          /\ output_dir \in {DefaultOutputDir, Mp4OutputDir}
          /\ files \in StaleFiles(output_dir)
       \/ /\ kinematics_file = LongKinematics
          /\ transcriptions_file \in SomeTranscriptionFiles
          /\ available_writers \in {r \in Registries : r.ffmpeg = "ok"}
          /\ output_dir = DefaultOutputDir
          /\ files = {}
    /\ InitProgram

Next == create_all_videos

Spec == Init /\ [][Next]_vars

-----------------------------------------------------------------------------
(* SpecAnnotations: load_data on every transcriptions file, then the       *)
(* gesture lookup at a frame.                                              *)

LookupFrames == (0..MaxLookupFrame) \cup {15, 25}

\* get_current_gesture(frame_idx) as animate calls it (line 347).
Lookup ==
    /\ pc = "loaded"
    /\ \E f \in LookupFrames :
          overlay' = [drawn |-> TRUE, frame |-> f,
                      gesture_text |-> get_current_gesture(transcriptions_data, f)]
    /\ pc' = "lookup"
    /\ UNCHANGED <<inputs, files, dirs, kinematics_data, frame_count,
                   transcriptions_data, line_num, transcriptions, group, left_data,
                   right_data, figures, writer, frame, frames_out, render_result,
                   success_count, created_files, summary, result>>

InitAnnotations ==
    /\ kinematics_file = Table(MaxRows, 76, {})
    /\ transcriptions_file \in AllTranscriptionFiles
    /\ available_writers = [ffmpeg |-> "ok", pillow |-> "ok"]
    /\ output_dir = DefaultOutputDir
    /\ files = {}
    /\ InitProgram

NextAnnotations == load_data \/ Lookup

SpecAnnotations == InitAnnotations /\ [][NextAnnotations]_vars

-----------------------------------------------------------------------------
(* Properties.  What the claims call a well-formed line is stated here on  *)
(* the text itself, without the loader's operators.                        *)

TokenStarts(line) ==
    {i \in 1..Len(line) :
        line[i] \notin {" ", "\t"} /\ (i = 1 \/ line[i - 1] \in {" ", "\t"})}

TokenEnd(line, i) ==
    CHOOSE j \in i..Len(line) :
        /\ \A k \in i..j : line[k] \notin {" ", "\t"}
        /\ j = Len(line) \/ line[j + 1] \in {" ", "\t"}

\* The n-th whitespace-separated token of a line that has at least n.
Token(line, n) ==
    LET i == CHOOSE i \in TokenStarts(line) :
                 Cardinality({k \in TokenStarts(line) : k < i}) = n - 1
    IN SubSeq(line, i, TokenEnd(line, i))

Unsigned(t) == IF t # <<>> /\ t[1] \in {"+", "-"} THEN SubSeq(t, 2, Len(t)) ELSE t

IsIntegerText(t) ==
    /\ Unsigned(t) # <<>>
    /\ \A i \in 1..Len(Unsigned(t)) : Unsigned(t)[i] \in Digits

RECURSIVE Pow10(_)
Pow10(n) == IF n = 0 THEN 1 ELSE 10 * Pow10(n - 1)

RECURSIVE SumTo(_, _)
SumTo(d, n) == IF n = 0 THEN 0 ELSE SumTo(d, n - 1) + DigitVal(d[n]) * Pow10(Len(d) - n)

IntegerValue(t) ==
    IF t[1] = "-" THEN 0 - SumTo(Unsigned(t), Len(Unsigned(t)))
    ELSE SumTo(Unsigned(t), Len(Unsigned(t)))

IsGestureText(t) ==
    \/ IsIntegerText(t)
    \/ t # <<>> /\ t[1] = "G" /\ IsIntegerText(SubSeq(t, 2, Len(t)))

GestureValue(t) ==
    IF t[1] = "G" THEN IntegerValue(SubSeq(t, 2, Len(t))) ELSE IntegerValue(t)

WellFormed(line) ==
    /\ Cardinality(TokenStarts(line)) >= 3
    /\ IsIntegerText(Token(line, 1))
    /\ IsIntegerText(Token(line, 2))
    /\ IsGestureText(Token(line, 3))

IntervalOf(line) ==
    <<IntegerValue(Token(line, 1)), IntegerValue(Token(line, 2)),
      GestureValue(Token(line, 3))>>

RECURSIVE WellFormedIntervals(_)
\* The intervals of the well-formed lines, in the order of the lines.
WellFormedIntervals(ls) ==
    IF ls = <<>> THEN <<>>
    ELSE IF WellFormed(ls[Len(ls)])
         THEN Append(WellFormedIntervals(SubSeq(ls, 1, Len(ls) - 1)),
                     IntervalOf(ls[Len(ls)]))
         ELSE WellFormedIntervals(SubSeq(ls, 1, Len(ls) - 1))

LoadReturned == pc \in {"loaded", "lookup"}

\* The label of a gesture id as the claims state it.
ExpectedLabel(id) ==
    IF id \in (1..6) \cup (8..15) THEN gestures[id] ELSE <<"Gesture ">> \o IntToStr(id)

\* The indices of the intervals that contain frame f, bounds included.
Containing(arr, f) == {i \in 1..Len(arr) : arr[i][1] <= f /\ f <= arr[i][2]}

First(S) == CHOOSE i \in S : \A j \in S : i <= j

\* C1: over a non-empty interval sequence, the lookup at frame f gives the
\* label of the first interval in file order with start <= f <= end, also
\* with overlapping or unsorted intervals; it gives 'Transition' exactly
\* when no interval contains f; an id missing from the table gives
\* 'Gesture <id>'.
C1_FirstMatchWins ==
    (pc = "lookup" /\ ~transcriptions_data.isNone) =>
        LET arr == transcriptions_data.arr
            hit == Containing(arr, overlay.frame)
        IN /\ arr # <<>>
           /\ hit = {} => overlay.gesture_text = <<"Transition">>
           /\ hit # {} =>
                /\ overlay.gesture_text = ExpectedLabel(arr[First(hit)][3])
                /\ overlay.gesture_text # <<"Transition">>
           /\ (hit # {} /\ arr[First(hit)][3] = 7) =>
                overlay.gesture_text = <<"Gesture ", "7">>

\* C1 witness: two overlapping intervals out of order, the frame in both,
\* and the label is that of the one first in the file.
C1_Witness ==
    /\ pc = "lookup"
    /\ transcriptions_file.lines = <<Line_10_20_G3, Line_2_15_G1>>
    /\ overlay.frame = 15
    /\ overlay.gesture_text = <<"Pushing needle through tissue">>

\* No line of the file is well-formed: the file is absent, empty, or every
\* line of it is skipped.
Degraded(file) ==
    \/ ~file.exists
    \/ file.exists /\ file.readable /\ \A i \in 1..Len(file.lines) : ~WellFormed(file.lines[i])

\* C8: with the annotation file absent, empty or all of its lines skipped,
\* load_data succeeds whenever kinematics loaded, the annotation state is
\* the empty state (None), and the lookup gives 'No gesture data' at every
\* frame.
C8_DegradedAnnotations ==
    (Degraded(transcriptions_file) /\ kinematics_file.exists /\ kinematics_file.parses) =>
        /\ result # "False"
        /\ LoadReturned => transcriptions_data.isNone
        /\ pc = "lookup" => overlay.gesture_text = <<"No gesture data">>

\* C8 witness: a file whose lines are all skipped, looked up at the last
\* frame of the table.
C8_Witness ==
    /\ pc = "lookup"
    /\ transcriptions_file.exists
    /\ Len(transcriptions_file.lines) >= 2
    /\ Degraded(transcriptions_file)
    /\ overlay.frame = frame_count - 1
    /\ overlay.gesture_text = <<"No gesture data">>

\* C9: the loaded intervals are exactly the well-formed lines, in file
\* order, the gesture id being the integer after an initial 'G' is
\* stripped; a blank or malformed line is dropped without a change to the
\* intervals before or after it, and without an end of the load.
C9_TolerantFold ==
    /\ pc = "read_lines" =>
         transcriptions =
             WellFormedIntervals(SubSeq(transcriptions_file.lines, 1, line_num - 1))
    /\ (LoadReturned /\ transcriptions_file.exists /\ transcriptions_file.readable) =>
         IF WellFormedIntervals(transcriptions_file.lines) = <<>>
         THEN transcriptions_data.isNone
         ELSE /\ ~transcriptions_data.isNone
              /\ transcriptions_data.arr = WellFormedIntervals(transcriptions_file.lines)

\* C9 witness: a malformed line between two well-formed ones.
C9_Witness ==
    /\ pc = "loaded"
    /\ transcriptions_file.lines = <<Line_10_20_G3, Line_abc_def_G1, Line_0_3_7>>
    /\ ~transcriptions_data.isNone
    /\ transcriptions_data.arr = <<<<10, 20, 3>>, <<0, 3, 7>>>>

\* C10: every interval of the loaded collection has start_frame <=
\* end_frame and a positive gesture_id.
C10_IntervalsValid ==
    ~transcriptions_data.isNone =>
        \A i \in 1..Len(transcriptions_data.arr) :
            /\ transcriptions_data.arr[i][1] <= transcriptions_data.arr[i][2]
            /\ transcriptions_data.arr[i][3] > 0

-----------------------------------------------------------------------------
(* Properties of create_all_videos and of a group's render.                *)

\* create_all_videos has handed control back: by a return or by an
\* exception that left it.
Ended == pc \in {"done", "raised"}

\* The kinematics file is missing or cannot be loaded as a table.
KinematicsFails(file) ==
    ~file.exists \/ ~file.parses \/ (file.rows = 1 /\ file.cols = 1)

\* C2: create_all_videos returns success if and only if at least one of the
\* two group renders returned success; when kinematics loading fails it
\* returns failure before any render is attempted and before any output
\* directory or summary is created.
C2_SuccessIffOneRender ==
    Ended =>
        /\ result = "True" <=>
             (render_result["master"] = "True" \/ render_result["slave"] = "True")
        /\ KinematicsFails(kinematics_file) =>
             /\ result = "False"
             /\ render_result = [master |-> "none", slave |-> "none"]
             /\ dirs = {}
             /\ ~summary.called

\* C3: once kinematics loaded, whatever way the master render fails, the
\* slave render is attempted afterwards and the count and the summary are
\* reported.
C3_SiblingIsolation ==
    (Ended /\ ~KinematicsFails(kinematics_file)
           /\ render_result["master"] \in {"False", "raised"}) =>
        /\ render_result["slave"] # "none"
        /\ summary.called

\* C4: on every exit path of a group render that created a figure, the
\* figure is closed before the render hands control back, so no figure is
\* open between the renders or after them.
C4_FigureClosed ==
    pc \in {"returned", "raised", "render", "summary", "done"} => figures = {}

\* The name with its last four atoms, the extension '.mp4', replaced by '.gif'.
ExtensionChanged(name) == SubSeq(name, 1, Len(name) - 4) \o <<".", "g", "i", "f">>

\* C5: the selection gives the ffmpeg writer and the name unchanged when
\* ffmpeg is listed and constructs; otherwise the pillow writer and the
\* name with only its extension '.mp4' replaced by '.gif'; and no writer,
\* without raising, when neither is listed or both constructions raise.
C5_OrderedFallback ==
    LET name == GroupOutput(output_dir, group)
        primary == available_writers.ffmpeg = "ok"
        secondary == available_writers.pillow = "ok"
    IN /\ pc = "saving" =>
            /\ primary => writer = [writer |-> "ffmpeg", filename |-> name]
            /\ (~primary /\ secondary) =>
                  writer = [writer |-> "pillow", filename |-> ExtensionChanged(name)]
            /\ primary \/ secondary
       /\ (pc = "returned" /\ ~primary /\ ~secondary) => render_result[group] = "False"

\* The rows [lo, hi) of a position sequence, rows counted from 0.
Rows(positions, lo, hi) == [i \in 1..(hi - lo) |-> positions[lo + i]]

\* C6: at every frame f, 0 <= f < frame_count, animate sets the left and
\* the right trail to the position rows [max(0, f - 150), f + 1); the slice
\* is never empty, it includes row f, and the update does not fail.
C6_TrailWindow ==
    overlay.drawn =>
        LET f == overlay.frame
            lo == IF f - 150 > 0 THEN f - 150 ELSE 0
        IN /\ 0 <= f /\ f < frame_count
           /\ ~overlay.raised
           /\ overlay.left_trail = Rows(left_data.positions, lo, f + 1)
           /\ overlay.right_trail = Rows(right_data.positions, lo, f + 1)
           /\ overlay.left_trail # <<>>
           /\ overlay.left_trail[Len(overlay.left_trail)] = left_data.positions[f + 1]
           /\ overlay.right_trail[Len(overlay.right_trail)] = right_data.positions[f + 1]

\* C6 witness: the last frame of a table longer than the trail, where the
\* window has left row 0 behind.
C6_Witness ==
    /\ overlay.drawn
    /\ frame_count > 151
    /\ overlay.frame = frame_count - 1
    /\ Len(overlay.left_trail) = 151
    /\ overlay.left_trail[1] = left_data.positions[frame_count - 150]
    /\ overlay.left_trail[1] # left_data.positions[1]

\* C7: the progress shown at frame f is f / (frame_count - 1) * 100: 0% at
\* the first frame and 100% at the last frame of every render with
\* frame_count >= 2.
C7_ProgressReaches100 ==
    (overlay.drawn /\ frame_count >= 2) =>
        /\ ~overlay.raised
        /\ overlay.progress[1] * (frame_count - 1)
             = overlay.frame * 100 * overlay.progress[2]
        /\ overlay.frame = frame_count - 1 => overlay.progress[1] = 100 * overlay.progress[2]

-----------------------------------------------------------------------------
(* SpecExtract: load_data on kinematics tables of every shape, and a call  *)
(* of extract_manipulator_data, before or after the load, with one of the  *)
(* four manipulator names or with another name.                            *)

ManipulatorTypes == {"master_left", "master_right", "slave_right", "slave_left"}

\* extract_manipulator_data(manipulator_type), lines 120-150, called from
\* outside a render; the name asked for is kept in `group`, the bundle (or
\* None, or the IndexError) in `left_data`.
ExtractRole ==
    /\ pc \in {"start", "loaded", "done"}
    /\ \E manipulator_type \in ManipulatorTypes \cup {"camera"} :
          /\ group' = manipulator_type
          /\ left_data' = extract_manipulator_data(kinematics_data, manipulator_type)
    /\ pc' = "extracted"
    /\ UNCHANGED <<inputs, files, dirs, kinematics_data, frame_count,
                   transcriptions_data, line_num, transcriptions, right_data,
                   figures, writer, frame, overlay, frames_out, render_result,
                   success_count, created_files, summary, result>>

\* Tables of 0..MaxRows rows, of fewer than, exactly and more than the 76
\* columns of the JIGSAWS format; a missing file and an unparseable one.
ExtractKinematicsFiles ==
    {AbsentKinematics, CorruptKinematics}
      \cup {Table(rows, cols, {}) : rows \in 0..MaxRows, cols \in {40, 76, 78}}

InitExtract ==
    /\ kinematics_file \in ExtractKinematicsFiles
    /\ transcriptions_file \in {AbsentTranscriptions, Readable(<<Line_10_20_G3>>)}
    /\ available_writers = [ffmpeg |-> "ok", pillow |-> "ok"]
    /\ output_dir = DefaultOutputDir
    /\ files = {}
    /\ InitProgram

NextExtract == load_data \/ ExtractRole

SpecExtract == InitExtract /\ [][NextExtract]_vars

\* The columns the claims give for each of the four roles: the first
\* position column, the first velocity column, the gripper column.
RoleColumns(role) ==
    CASE role = "master_left" -> <<0, 12, 18>>
      [] role = "master_right" -> <<19, 31, 37>>
      [] role = "slave_right" -> <<38, 50, 56>>
      [] role = "slave_left" -> <<57, 69, 75>>

\* C11: for every loaded kinematics table of R >= 1 rows and at least 76
\* columns, frame_count = R, and for each of the four roles the bundle's
\* positions, velocities, gripper and time have length R, the first three
\* being the role's columns of the table unchanged and time[i] = i / fps;
\* an unrecognized role or an absent table yields None, not an exception.
C11_ExtractProjection ==
    LET file == kinematics_file
        R == file.rows
        valid == file.exists /\ file.parses /\ R >= 1 /\ file.cols >= 76
    IN /\ (valid /\ ~kinematics_data.isNone) => frame_count = R
       /\ (pc = "extracted" /\ (kinematics_data.isNone \/ group \notin ManipulatorTypes)) =>
             left_data = [isNone |-> TRUE]
       /\ (pc = "extracted" /\ valid /\ ~kinematics_data.isNone
                            /\ group \in ManipulatorTypes) =>
             /\ ~left_data.isNone
             /\ ~left_data.raised
             /\ Len(left_data.positions) = R
             /\ Len(left_data.velocities) = R
             /\ Len(left_data.gripper) = R
             /\ Len(left_data.time) = R
             /\ \A i \in 1..R :
                   /\ \A k \in 1..3 :
                         /\ left_data.positions[i][k]
                              = Cell(file, i - 1, RoleColumns(group)[1] + k - 1)
                         /\ left_data.velocities[i][k]
                              = Cell(file, i - 1, RoleColumns(group)[2] + k - 1)
                   /\ left_data.gripper[i] = Cell(file, i - 1, RoleColumns(group)[3])
                   /\ left_data.time[i][1] * 30 = (i - 1) * left_data.time[i][2]

-----------------------------------------------------------------------------
(* SpecScenario: create_all_videos on a table of 300 rows (and on the      *)
(* short tables) with the three annotated intervals of the end-to-end      *)
(* scenario.                                                               *)

Line_0_99_G1 == <<"0", " ", "9", "9", " ", "G", "1">>  \* "0 99 G1"
Line_100_199_G2 == <<"1", "0", "0", " ", "1", "9", "9", " ", "G", "2">>  \* "100 199 G2"
Line_200_299_G4 == <<"2", "0", "0", " ", "2", "9", "9", " ", "G", "4">>  \* "200 299 G4"

ScenarioTranscriptions == Readable(<<Line_0_99_G1, Line_100_199_G2, Line_200_299_G4>>)

ScenarioKinematicsFiles ==
    {Table(300, 76, {})} \cup {Table(rows, 76, {}) : rows \in 2..MaxRows}

InitScenario ==
    /\ kinematics_file \in ScenarioKinematicsFiles
    /\ transcriptions_file = ScenarioTranscriptions
    /\ available_writers \in {r \in Registries : r.pillow = "ok" /\ r.ffmpeg # "broken"}
    /\ output_dir = DefaultOutputDir
    /\ files = {}
    /\ InitProgram

NextScenario == create_all_videos

SpecScenario == InitScenario /\ [][NextScenario]_vars

\* The frame indices 0, 1, ..., n - 1 in increasing order.
UpTo(n) == [i \in 1..n |-> i - 1]

\* The overlay label the scenario's intervals give frame f.
ScenarioLabel(f) ==
    IF f <= 99 THEN <<"Reaching for needle">>
    ELSE IF f <= 199 THEN <<"Positioning needle/tool">>
    ELSE <<"Transferring needle L<->R">>

\* C12: a successful group render produces exactly frame_count frames, one
\* per time step, for the frame indices 0, 1, ..., frame_count - 1 in
\* increasing order; with 300 rows and the intervals [0,99,G1],
\* [100,199,G2], [200,299,G4] the overlay label along that sequence changes
\* exactly twice, at frame 100 (G1 to G2) and at frame 200 (G2 to G4), and
\* is never 'Transition'.
C12_OneFramePerStep ==
    [][/\ pc' = "saving" =>
            /\ frame' <= frame_count'
            /\ frames_out' = UpTo(frame')
            /\ (frame' > 0 => overlay'.drawn /\ overlay'.frame = frame' - 1)
       /\ (pc = "saving" /\ pc' = "returned" /\ render_result'[group] = "True") =>
            frames_out = UpTo(frame_count)
       /\ (overlay'.drawn /\ frame_count' = 300) =>
            /\ overlay'.gesture_text = ScenarioLabel(overlay'.frame)
            /\ overlay'.gesture_text # <<"Transition">>
       /\ (overlay.drawn /\ overlay'.drawn /\ frame_count = 300) =>
            (overlay'.gesture_text # overlay.gesture_text
               <=> overlay'.frame \in {100, 200})
      ]_vars

\* C12 witness: the slave render of the 300-row table has drawn its last
\* frame, the master render having succeeded before it.
C12_Witness ==
    /\ pc = "saving"
    /\ group = "slave"
    /\ render_result["master"] = "True"
    /\ frame_count = 300
    /\ frames_out = UpTo(300)
    /\ overlay.frame = 299
    /\ overlay.gesture_text = <<"Transferring needle L<->R">>

-----------------------------------------------------------------------------
(* The artifact list of create_all_videos.                                 *)

\* The file the selected backend writes for group g: the .mp4 for the
\* primary backend, the .gif for the fallback.
WrittenBy(g) ==
    IF available_writers.ffmpeg = "ok"
    THEN GroupOutput(output_dir, g)
    ELSE ExtensionChanged(GroupOutput(output_dir, g))

\* C13: the artifact list handed to the summary names only files a
\* successful group render of this run produced: a failed group adds no
\* entry, a successful group adds exactly the file its backend wrote, also
\* when a file with the other extension already exists in the output
\* directory, and the number of entries equals the success count.
C13_ArtifactsOfThisRun ==
    summary.called =>
        /\ summary.created_files =
             (IF render_result["master"] = "True" THEN <<WrittenBy("master")>> ELSE <<>>)
               \o (IF render_result["slave"] = "True" THEN <<WrittenBy("slave")>> ELSE <<>>)
        /\ Len(summary.created_files) = success_count

=============================================================================
